---- MODULE Spec2Model ----
(***************************************************************************)
(* A model of openbb_terminal/cryptocurrency/due_diligence/messari_model.py *)
(* Every public function of the module is one action: it draws its         *)
(* arguments and the (mocked) HTTP responses from small sets, runs the      *)
(* function's code on them and records the requests issued, the lines      *)
(* printed, the outcome (return or exception) and the returned tuple.       *)
(*                                                                         *)
(* Values.  A Python str is a TLA+ string; Len, SubSeq and \o act on it     *)
(* character by character.  A cell of a table (and a JSON scalar) is a      *)
(* tagged record: None, Str(s), Num(n), Bool(b), a parsed date-time, or     *)
(* NaT.  A DataFrame is [columns, rows, index]: the ordered column names,   *)
(* the rows as functions from column name to cell, and the index.           *)
(***************************************************************************)
EXTENDS Integers, Sequences, FiniteSets, TLC

VARIABLES
    API_MESSARI_KEY, \* cfg.API_MESSARI_KEY, the process-wide configured key
    fn,              \* name of the function of the last call ("" before any)
    args,            \* its arguments
    responses,       \* the responses requests.get returned, in order
    cg_df,           \* what the collaborator get_coin_tokenomics returned
    trace,           \* outbound events of the call, in order (GETs, collaborator calls)
    sink,            \* lines the call printed, in order
    outcome,         \* "none" | "pending" | "returned" | "KeyError" | "TypeError"
    ret,             \* the returned tuple: [tables |-> <<..>>, texts |-> <<..>>]
    prev             \* the first of two identical calls, while the second is looked at

vars == <<API_MESSARI_KEY, fn, args, responses, cg_df, trace, sink, outcome, ret, prev>>

---------------------------------------------------------------------------
(* Bounds of the model *)

\* longest list in a JSON payload (metrics, links, individuals, rounds, ...)
MaxRows == 2
\* longest governance summary text
MaxLen == 4

---------------------------------------------------------------------------
(* Python str operations, character by character *)

Char(s, i) == SubSeq(s, i, i)

\* index of the first occurrence of the character c in s at or after i, 0 if none
RECURSIVE Find(_, _, _)
Find(s, c, i) ==
    IF i > Len(s) THEN 0
    ELSE IF Char(s, i) = c THEN i
    ELSE Find(s, c, i + 1)

\* sub in text
Contains(text, sub) ==
    \E i \in 1..(Len(text) - Len(sub) + 1) : SubSeq(text, i, i + Len(sub) - 1) = sub

\* s.split(sep)[0] for a one-character separator
SplitFirst(s, sep) ==
    LET i == Find(s, sep, 1)
    IN  IF i = 0 THEN s ELSE SubSeq(s, 1, i - 1)

\* s.rstrip(c)
RECURSIVE Rstrip(_, _)
Rstrip(s, c) ==
    IF Len(s) > 0 /\ Char(s, Len(s)) = c THEN Rstrip(SubSeq(s, 1, Len(s) - 1), c) ELSE s

\* s.replace(old, new): every non-overlapping occurrence, left to right
RECURSIVE Replace(_, _, _)
Replace(s, old, new) ==
    IF Len(s) < Len(old) THEN s
    ELSE IF SubSeq(s, 1, Len(old)) = old
         THEN new \o Replace(SubSeq(s, Len(old) + 1, Len(s)), old, new)
         ELSE Char(s, 1) \o Replace(SubSeq(s, 2, Len(s)), old, new)

LowerAlpha == "abcdefghijklmnopqrstuvwxyz"
UpperAlpha == "ABCDEFGHIJKLMNOPQRSTUVWXYZ"

Upper(c) == LET i == Find(LowerAlpha, c, 1) IN IF i = 0 THEN c ELSE Char(UpperAlpha, i)
Lower(c) == LET i == Find(UpperAlpha, c, 1) IN IF i = 0 THEN c ELSE Char(LowerAlpha, i)
IsAlpha(c) == Find(LowerAlpha, c, 1) # 0 \/ Find(UpperAlpha, c, 1) # 0

RECURSIVE LowerAll(_)
LowerAll(s) == IF s = "" THEN "" ELSE Lower(Char(s, 1)) \o LowerAll(SubSeq(s, 2, Len(s)))

\* str.capitalize: first character upper-cased, the rest lower-cased
Capitalize(s) == IF s = "" THEN "" ELSE Upper(Char(s, 1)) \o LowerAll(SubSeq(s, 2, Len(s)))

\* str.title: a letter is upper-cased after a non-letter, lower-cased after a letter
RECURSIVE TitleFrom(_, _)
TitleFrom(s, afterLetter) ==
    IF s = "" THEN ""
    ELSE LET c == Char(s, 1)
         IN  (IF afterLetter THEN Lower(c) ELSE Upper(c))
             \o TitleFrom(SubSeq(s, 2, Len(s)), IsAlpha(c))

\* dataframe_helpers.lambda_replace_underscores_in_column_names and
\* prettify_column_names: underscores to spaces, then capitalisation of each word
lambda_replace_underscores_in_column_names(val) == TitleFrom(Replace(val, "_", " "), FALSE)
prettify_column_name(val) == TitleFrom(Replace(val, "_", " "), FALSE)

\* re.sub("<[^>]*>", "", s): leftmost matches, each from a "<" to the first ">"
\* after it, deleted
RECURSIVE re_sub_tags(_)
re_sub_tags(s) ==
    LET i == Find(s, "<", 1)
        j == IF i = 0 THEN 0 ELSE Find(s, ">", i + 1)
    IN  IF i = 0 \/ j = 0 THEN s
        ELSE SubSeq(s, 1, i - 1) \o re_sub_tags(SubSeq(s, j + 1, Len(s)))

---------------------------------------------------------------------------
(* Cells and DataFrames *)

None == [k |-> "none"]
NaT == [k |-> "nat"]
Str(s) == [k |-> "str", v |-> s]
Num(n) == [k |-> "num", v |-> n]
Bool(b) == [k |-> "bool", v |-> b]

\* pandas.isna on a scalar
IsNA(c) == c.k \in {"none", "nan", "nat"}

RangeIndex == [kind |-> "range", name |-> "", values |-> <<>>]

\* pd.DataFrame()
EmptyDF == [columns |-> <<>>, rows |-> <<>>, index |-> RangeIndex]

\* pd.DataFrame(list of dicts): the dicts of one list share the key order `keys`
DataFrame(records, keys) ==
    IF records = <<>> THEN EmptyDF
    ELSE [columns |-> keys, rows |-> records, index |-> RangeIndex]

\* df.empty
empty(df) == Len(df.rows) = 0 \/ Len(df.columns) = 0

Range(seq) == {seq[i] : i \in DOMAIN seq}

\* df.fillna(value)
fillna(df, value) ==
    [df EXCEPT !.rows = [i \in DOMAIN df.rows |->
                           [c \in DOMAIN df.rows[i] |->
                              IF IsNA(df.rows[i][c]) THEN value ELSE df.rows[i][c]]]]

\* df.replace(to_replace=[None], value=value): masks every missing value
replace_none(df, value) ==
    [df EXCEPT !.rows = [i \in DOMAIN df.rows |->
                           [c \in DOMAIN df.rows[i] |->
                              IF IsNA(df.rows[i][c]) THEN value ELSE df.rows[i][c]]]]

\* df.drop(cols, axis=1, errors="ignore")
drop(df, cols) ==
    [df EXCEPT !.columns = SelectSeq(df.columns, LAMBDA c : c \notin cols),
               !.rows = [i \in DOMAIN df.rows |->
                           [c \in (DOMAIN df.rows[i]) \ cols |-> df.rows[i][c]]]]

\* df.columns = new: the i-th column takes the name new[i]
set_columns(df, new) ==
    LET old(c2) == df.columns[CHOOSE i \in DOMAIN new : new[i] = c2]
    IN  [df EXCEPT !.columns = new,
                   !.rows = [i \in DOMAIN df.rows |->
                               [c2 \in Range(new) |-> df.rows[i][old(c2)]]]]

\* map(str.capitalize, columns)
map_capitalize(columns) == [i \in DOMAIN columns |-> Capitalize(columns[i])]

\* dataframe_helpers.prettify_column_names(columns)
prettify_column_names(columns) == [i \in DOMAIN columns |-> prettify_column_name(columns[i])]

\* [lambda_replace_underscores_in_column_names(val) for val in columns]
replace_underscores(columns) ==
    [i \in DOMAIN columns |-> lambda_replace_underscores_in_column_names(columns[i])]

\* the column col of df, as a sequence of cells
column(df, col) == [i \in DOMAIN df.rows |-> df.rows[i][col]]

\* df[col] = values   (an existing column)
assign(df, col, values) ==
    [df EXCEPT !.rows = [i \in DOMAIN df.rows |-> [df.rows[i] EXCEPT ![col] = values[i]]]]

\* df.insert(0, col, values)
insert0(df, col, values) ==
    [df EXCEPT !.columns = <<col>> \o df.columns,
               !.rows = [i \in DOMAIN df.rows |->
                           [c \in (DOMAIN df.rows[i]) \cup {col} |->
                              IF c = col THEN values[i] ELSE df.rows[i][c]]]]

---------------------------------------------------------------------------
(* HTTP: requests, responses, printed lines *)

base_url == "https://data.messari.io/api/v1/"
base_url2 == "https://data.messari.io/api/v2/"

TierMarker == "requires a pro or enterprise subscription"
MsgPremium == "[red]API Key not authorized for Premium Feature[/red]\n"
MsgInvalidKey == "[red]Invalid API Key[/red]\n"

NoHeaders == {}
KeyHeader(key) == {<<"x-messari-api-key", key>>}
NoParams == {}

\* one requests.get(url, params=..., headers=...) call, as an outbound event
requests_get_twice(url, headers, params) ==
    << [op |-> "GET", url |-> url, headers |-> headers, params |-> params],
       [op |-> "GET", url |-> url, headers |-> headers, params |-> params] >>

requests_get(url, headers, params) ==
    << [op |-> "GET", url |-> url, headers |-> headers, params |-> params] >>

\* console.print(msg) and the builtin print(msg)
console_print(msg) == << [chan |-> "console", msg |-> msg] >>
builtin_print(msg) == << [chan |-> "stdout", msg |-> msg] >>

\* the result of running one function
Returned(tr, out, tables, texts) ==
    [trace |-> tr, sink |-> out, outcome |-> "returned",
     ret |-> [tables |-> tables, texts |-> texts]]
Raised(tr, out, exc) ==
    [trace |-> tr, sink |-> out, outcome |-> exc,
     ret |-> [tables |-> <<>>, texts |-> <<>>]]

\* Inputs
Keys == {"key-A", "key-B"}
Symbols == {"btc", "eth"}
CoingeckoIds == {"bitcoin"}
Bodies == { "Unauthorized",
            "This endpoint requires a pro or enterprise subscription.",
            "requires a pro subscription" }
FailStatuses == {401, 404, 500}
FailResponses == { [status_code |-> s, text |-> t, data |-> None] : s \in FailStatuses, t \in Bodies }
Ok(data) == [status_code |-> 200, text |-> "", data |-> data]

\* sequences over S of length at most n
RECURSIVE SeqsUpTo(_, _)
SeqsUpTo(S, n) ==
    IF n = 0 THEN {<<>>}
    ELSE LET shorter == SeqsUpTo(S, n - 1)
         IN  shorter \cup {Append(q, x) : q \in {r \in shorter : Len(r) = n - 1}, x \in S}

---------------------------------------------------------------------------
(* get_links *)

LinkKeys == <<"name", "link">>
LinkRecords == { [name |-> n, link |-> l] :
                   n \in {None, Str("Website")}, l \in {None, Str("https://bitcoin.org")} }
LinksData(links) == [profile |-> [general |-> [overview |-> [official_links |-> links]]]]
LinksResponses == {Ok(LinksData(l)) : l \in SeqsUpTo(LinkRecords, MaxRows)} \cup FailResponses

\* lines 178-184: the request of get_links, as far as the call of requests.get
get_links_request(symbol) ==
    LET url == base_url2 \o "assets/" \o symbol \o "/profile"
        headers == KeyHeader(API_MESSARI_KEY)
        params == {<<"fields", "profile/general/overview/official_links">>}
    IN  requests_get(url, headers, params)

get_links(symbol, r) ==
    LET tr == get_links_request(symbol)
    IN  IF r.status_code = 200 THEN
            LET df == DataFrame(r.data.profile.general.overview.official_links, LinkKeys)
            IN  Returned(tr, <<>>, <<set_columns(df, map_capitalize(df.columns))>>, <<>>)
        ELSE IF r.status_code = 401 THEN
            Returned(tr, builtin_print(MsgInvalidKey), <<EmptyDF>>, <<>>)
        ELSE
            Returned(tr, builtin_print(r.text), <<EmptyDF>>, <<>>)

---------------------------------------------------------------------------
(* get_available_timeseries *)

HasColumn(df, col) == col \in Range(df.columns)

\* df.set_index(col) for a column the frame has: the column becomes the index
set_index(df, col) ==
    [columns |-> SelectSeq(df.columns, LAMBDA c : c # col),
     rows |-> [i \in DOMAIN df.rows |-> [c \in (DOMAIN df.rows[i]) \ {col} |-> df.rows[i][c]]],
     index |-> [kind |-> "column", name |-> col,
                values |-> [i \in DOMAIN df.rows |-> df.rows[i][col]]]]

MetricRecords ==
    { [metric_id |-> "price", name |-> "Price", description |-> "Volume weighted price",
       source_attribution |-> << [name |-> "Kaiko"] >>],
      [metric_id |-> "mcap.dom", name |-> "Marketcap Dominance", description |-> "Share of total",
       role_restriction |-> "pro", source_attribution |-> << >>],
      [metric_id |-> "sply.circ", name |-> "Circulating Supply", description |-> "Coins in circulation",
       source_attribution |-> << [name |-> "Kaiko"], [name |-> "Coinmetrics"] >>] }
MetricsResponses ==
    {Ok([metrics |-> m]) : m \in SeqsUpTo(MetricRecords, MaxRows)} \cup FailResponses

\* the loop of lines 45-48: every source name followed by a comma
RECURSIVE JoinSources(_)
JoinSources(attribution) ==
    IF attribution = <<>> THEN ""
    ELSE attribution[1].name \o "," \o JoinSources(Tail(attribution))

AvailableColumns == <<"id", "Title", "Description", "Requires Paid Key", "Sources">>

\* the dict appended to arr for one metric
MetricRow(metric) ==
    [c \in Range(AvailableColumns) |->
        CASE c = "id" -> Str(metric.metric_id)
          [] c = "Title" -> Str(metric.name)
          [] c = "Description" -> Str(metric.description)
          [] c = "Requires Paid Key" -> Bool("role_restriction" \in DOMAIN metric)
          [] c = "Sources" -> Str(Rstrip(JoinSources(metric.source_attribution), ","))]

\* line 39: the request of get_available_timeseries, sent without headers
get_available_timeseries_request ==
    requests_get("https://data.messari.io/api/v1/assets/metrics", NoHeaders, NoParams)

get_available_timeseries(r) ==
    LET tr == get_available_timeseries_request
    IN  IF r.status_code = 200 THEN
            LET metrics == r.data.metrics
                arr == [i \in DOMAIN metrics |-> MetricRow(metrics[i])]
                df == DataFrame(arr, AvailableColumns)
            IN  IF ~HasColumn(df, "id") THEN Raised(tr, <<>>, "KeyError")
                ELSE Returned(tr, <<>>, <<set_index(df, "id")>>, <<>>)
        ELSE Returned(tr, <<>>, <<EmptyDF>>, <<>>)

---------------------------------------------------------------------------
(* get_messari_timeseries, get_marketcap_dominance *)

INTERVALS_TIMESERIES == <<"5m", "15m", "30m", "1h", "1d", "1w">>

\* pd.DataFrame(values, columns=columns): values is a list of equally long lists
DataFrameOfLists(values, columns) ==
    [columns |-> columns,
     rows |-> [i \in DOMAIN values |->
                 [c \in Range(columns) |->
                    Num(values[i][CHOOSE j \in DOMAIN columns : columns[j] = c])]],
     index |-> RangeIndex]

\* pd.to_datetime(x, unit="s"): x counted in seconds
to_datetime_s(cell) == [k |-> "datetime", sec |-> cell.v, msec |-> 0]

\* pd.to_datetime(x, unit="ms"): the instant x milliseconds after the epoch, held as
\* whole seconds and the milliseconds within the second
to_datetime_ms(cell) == [k |-> "datetime", sec |-> cell.v \div 1000, msec |-> cell.v % 1000]

\* df.index = pd.to_datetime(df.index, unit="ms")
index_to_datetime(df) ==
    [df EXCEPT !.index.kind = "datetime",
               !.index.values = [i \in DOMAIN df.index.values |-> to_datetime_ms(df.index.values[i])]]

TimeseriesIds == {"price", "mcap.dom"}
Intervals == {INTERVALS_TIMESERIES[5], INTERVALS_TIMESERIES[6]}
DateRanges == { <<"2021-10-01", "2021-10-31">> }
ValueRows == { <<0, 7>>, <<1500, 8>>, <<86400999, 9>> }
TimeseriesData(values) ==
    [schema |-> [name |-> "Price"],
     parameters |-> [columns |-> <<"timestamp", "value">>],
     values |-> values]
TimeseriesResponses ==
    {Ok(TimeseriesData(v)) : v \in SeqsUpTo(ValueRows, MaxRows)} \cup FailResponses

\* lines 127-137: the request of get_messari_timeseries, as far as the call of
\* requests.get; the configured key is read here
get_messari_timeseries_request(coin, timeseries_id, interval, start, end) ==
    LET url == base_url \o "assets/" \o coin \o "/metrics/" \o timeseries_id \o "/time-series"
        headers == KeyHeader(API_MESSARI_KEY)
        parameters == {<<"start", start>>, <<"end", end>>, <<"interval", interval>>}
    IN  requests_get(url, headers, parameters)

get_messari_timeseries(coin, timeseries_id, interval, start, end, r) ==
    LET tr == get_messari_timeseries_request(coin, timeseries_id, interval, start, end)
    IN  IF r.status_code = 200 THEN
            LET data == r.data
                title == Str(data.schema.name)
                df == DataFrameOfLists(data.values, data.parameters.columns)
            IN  IF empty(df)
                THEN Returned(tr, console_print("No data found for " \o coin \o ".\n"),
                              <<df>>, <<title>>)
                ELSE Returned(tr, <<>>,
                              <<index_to_datetime(set_index(df, "timestamp"))>>, <<title>>)
        ELSE IF r.status_code = 401 THEN
            IF Contains(r.text, TierMarker)
            THEN Returned(tr, console_print(MsgPremium), <<EmptyDF>>, <<Str("")>>)
            ELSE Returned(tr, console_print(MsgInvalidKey), <<EmptyDF>>, <<Str("")>>)
        ELSE Returned(tr, console_print(r.text), <<EmptyDF>>, <<Str("")>>)

\* lines 92-94 with 127-137: get_marketcap_dominance enters get_messari_timeseries
\* with timeseries_id "mcap.dom", which sends the request
get_marketcap_dominance_request(coin, interval, start, end) ==
    get_messari_timeseries_request(coin, "mcap.dom", interval, start, end)

\* df, _ = get_messari_timeseries(..., timeseries_id="mcap.dom"); return df
get_marketcap_dominance(coin, interval, start, end, r) ==
    LET res == get_messari_timeseries(coin, "mcap.dom", interval, start, end, r)
    IN  [res EXCEPT !.ret = [tables |-> <<res.ret.tables[1]>>, texts |-> <<>>]]

---------------------------------------------------------------------------
(* get_roadmap *)

\* pd.to_datetime on one ISO-8601 string "YYYY-MM-DDThh:mm:ssZ" (None gives NaT)
to_datetime_iso(cell) ==
    IF IsNA(cell) THEN NaT
    ELSE [k |-> "datetime", date |-> SplitFirst(cell.v, "T"),
          time |-> SubSeq(cell.v, Find(cell.v, "T", 1) + 1, Len(cell.v))]

\* pd.to_datetime on a column of ISO-8601 strings
to_datetime(cells) == [i \in DOMAIN cells |-> to_datetime_iso(cells[i])]

\* df.dropna(axis=1, how="all"): the columns that hold only missing values go
dropna_all_columns(df) ==
    drop(df, {c \in Range(df.columns) : \A i \in DOMAIN df.rows : IsNA(df.rows[i][c])})

RoadmapKeys == <<"title", "date", "type", "details">>
RoadmapRecords ==
    { [title |-> Str("Taproot"), date |-> d, type |-> Str("Upgrade"), details |-> x] :
        d \in {None, Str("2021-11-14T00:00:00Z")}, x \in {None, Str("Soft fork")} }
RoadmapData(roadmap) == [profile |-> [general |-> [roadmap |-> roadmap]]]
RoadmapResponses ==
    {Ok(RoadmapData(m)) : m \in SeqsUpTo(RoadmapRecords, MaxRows)} \cup FailResponses

\* lines 216-222: the request of get_roadmap, as far as the call of requests.get
get_roadmap_request(symbol) ==
    LET url == base_url2 \o "assets/" \o symbol \o "/profile"
        headers == KeyHeader(API_MESSARI_KEY)
        params == {<<"fields", "profile/general/roadmap">>}
    IN  requests_get(url, headers, params)

get_roadmap(symbol, r) ==
    LET tr == get_roadmap_request(symbol)
    IN  IF r.status_code = 200 THEN
            LET df == DataFrame(r.data.profile.general.roadmap, RoadmapKeys)
            IN  IF ~HasColumn(df, "date") THEN Raised(tr, <<>>, "KeyError")
                ELSE LET dated == assign(df, "date", to_datetime(column(df, "date")))
                         named == set_columns(dated, map_capitalize(dated.columns))
                     IN  Returned(tr, <<>>, <<dropna_all_columns(named)>>, <<>>)
        ELSE IF r.status_code = 401 THEN
            Returned(tr, console_print(MsgInvalidKey), <<EmptyDF>>, <<>>)
        ELSE Returned(tr, console_print(r.text), <<EmptyDF>>, <<>>)

---------------------------------------------------------------------------
(* get_tokenomics *)

NaN == [k |-> "nan"]
Dash == Str("-")

MetricValueColumns == <<"Metric", "Value">>

\* pd.DataFrame({"Metric": metrics, "Value": values})
MetricValueFrame(metrics, values) ==
    [columns |-> MetricValueColumns,
     rows |-> [i \in DOMAIN metrics |->
                 [c \in {"Metric", "Value"} |-> IF c = "Metric" THEN Str(metrics[i]) ELSE values[i]]],
     index |-> RangeIndex]

\* Series.str.replace(old, new): a non-string element gives NaN
str_replace(cells, old, new) ==
    [i \in DOMAIN cells |->
        IF cells[i].k = "str" THEN Str(Replace(cells[i].v, old, new)) ELSE NaN]

\* pd.concat([a, b], ignore_index=True, sort=False)
concat(a, b) ==
    LET cols == a.columns \o SelectSeq(b.columns, LAMBDA c : c \notin Range(a.columns))
        widen(row) == [c \in Range(cols) |-> IF c \in DOMAIN row THEN row[c] ELSE NaN]
    IN  [columns |-> cols,
         rows |-> [i \in 1..(Len(a.rows) + Len(b.rows)) |->
                     IF i <= Len(a.rows) THEN widen(a.rows[i])
                     ELSE widen(b.rows[i - Len(a.rows)])],
         index |-> RangeIndex]

\* tables the collaborator get_coin_tokenomics may return
CgTables ==
    { EmptyDF,
      MetricValueFrame(<<"Total Supply", "Max Supply">>, <<Num(21000000), None>>) }

ConsensusData(emission, mechanism, reward) ==
    [profile |-> [economics |-> [consensus_and_emission |->
        [supply |-> [general_emission_type |-> emission],
         consensus |-> [general_consensus_mechanism |-> mechanism,
                        consensus_details |-> Str("Nakamoto consensus, n/a for staking"),
                        mining_algorithm |-> Str("n/a"),
                        block_reward |-> reward]]]]]
TokenomicsResponses ==
    { Ok(ConsensusData(e, m, b)) :
        e \in {None, Str("Deflationary")}, m \in {None, Str("Proof-of-Work")},
        b \in {None, Num(6)} } \cup FailResponses

\* lines 261-267: the profile request of get_tokenomics, sent with an empty key
get_tokenomics_request(symbol) ==
    requests_get(base_url2 \o "assets/" \o symbol \o "/profile", KeyHeader(""),
                 {<<"fields", "profile/economics/consensus_and_emission">>})

\* line 293: the call of the collaborator, as an outbound event
get_coin_tokenomics(coingecko_symbol) ==
    << [op |-> "get_coin_tokenomics", arg |-> coingecko_symbol] >>

\* lines 296-302 with 127-137: the request of the nested call of
\* get_messari_timeseries for the circulating supply
get_tokenomics_supply_request(symbol) ==
    get_messari_timeseries_request(symbol, "sply.circ", "1d", "", "")

\* lines 272-292: the five-row table made from the profile
tokenomics_frame(r) ==
    LET tokenomics_data == r.data.profile.economics.consensus_and_emission
        df == MetricValueFrame(
                 <<"Emission Type", "Consensus Mechanism", "Consensus Details",
                   "Mining Algorithm", "Block Reward">>,
                 <<tokenomics_data.supply.general_emission_type,
                   tokenomics_data.consensus.general_consensus_mechanism,
                   tokenomics_data.consensus.consensus_details,
                   tokenomics_data.consensus.mining_algorithm,
                   tokenomics_data.consensus.block_reward>>)
    IN  assign(df, "Value", str_replace(column(df, "Value"), "n/a", "-"))

\* lines 294-295 with the fillna applied to the other frame: df is the joined
\* frame, unfilled, and the placeholders are written into the collaborator's frame
join_coingecko_df_fill_other(df, coingecko_df) ==
    [df |-> concat(df, coingecko_df), coingecko_df |-> fillna(coingecko_df, Dash)]

\* lines 294-295: the two frame objects after
\*     df = pd.concat([df, coingecko_df], ignore_index=True, sort=False)
\*     df.fillna("-", inplace=True)
\* pd.concat makes a new frame and writes into neither of its inputs; the name
\* df is bound to the new frame and fillna writes into that one.  coingecko_df
\* is the object the collaborator handed over, which the collaborator (or a
\* mock of it) may hand over again.
join_coingecko_df(df, coingecko_df) ==
    [df |-> fillna(concat(df, coingecko_df), Dash), coingecko_df |-> coingecko_df]

\* get_tokenomics with the status test left out and the two follow-up calls in
\* the other order: the timeseries request, then the collaborator
get_tokenomics_eager(symbol, coingecko_symbol, rs, cg) ==
    LET tr == get_tokenomics_request(symbol)
        ts == get_messari_timeseries(symbol, "sply.circ", "1d", "", "", rs[Len(rs)])
    IN  Returned(tr \o ts.trace \o get_coin_tokenomics(coingecko_symbol), ts.sink,
                 <<cg, ts.ret.tables[1]>>, <<>>)

\* The whole of get_tokenomics, run without interruption on the responses rs
\* that requests.get hands out in order (one when the profile request does not
\* return 200, else two) and the table cg of the collaborator.
get_tokenomics(symbol, coingecko_symbol, rs, cg) ==
    LET tr == get_tokenomics_request(symbol)
        r == rs[1]
    IN  IF r.status_code = 200 THEN
            LET called == get_coin_tokenomics(coingecko_symbol)
                df == join_coingecko_df(tokenomics_frame(r), cg).df
                ts == get_messari_timeseries(symbol, "sply.circ", "1d", "", "", rs[2])
            IN  Returned(tr \o called \o ts.trace, ts.sink, <<df, ts.ret.tables[1]>>, <<>>)
        ELSE IF r.status_code = 401 THEN
            Returned(tr, console_print(MsgInvalidKey), <<EmptyDF, EmptyDF>>, <<>>)
        ELSE Returned(tr, console_print(r.text), <<EmptyDF, EmptyDF>>, <<>>)

---------------------------------------------------------------------------
(* get_project_product_info *)

RepoKeys == <<"name", "link", "license_type">>
RepoRecords ==
    { [name |-> Str("bitcoin"), link |-> Str("https://github.com/bitcoin/bitcoin"),
       license_type |-> None] }
AuditKeys == <<"title", "date", "type", "details">>
AuditRecords ==
    { [title |-> Str("Audit"), date |-> d, type |-> Str("Security"), details |-> None] :
        d \in {None, Str("2020-02-02T00:00:00Z")} }
VulnRecords ==
    { [title |-> Str("Overflow"), date |-> Str("2010-08-15T00:00:00Z"), type |-> None,
       details |-> Str("Value overflow incident")] }
ProductData(project, technology, repos, audits, vulns) ==
    [profile |->
        [general |-> [overview |-> [project_details |-> project]],
         technology |->
            [overview |-> [technology_details |-> technology, client_repositories |-> repos],
             security |-> [audits |-> audits, known_exploits_and_vulnerabilities |-> vulns]]]]
ProductResponses ==
    { Ok(ProductData(d[1], d[2], rs, au, vu)) :
        d \in { <<None, Str("UTXO")>>, <<Str("A <b>peer-to-peer</b> cash system"), None>> },
        rs \in SeqsUpTo(RepoRecords, MaxRows), au \in SeqsUpTo(AuditRecords, MaxRows),
        vu \in SeqsUpTo(VulnRecords, MaxRows) } \cup FailResponses

\* lines 358-362 and 363-369: a list of dated records as a table
DatedFrame(records) ==
    LET df0 == DataFrame(records, AuditKeys)
        df == set_columns(df0, prettify_column_names(df0.columns))
    IN  IF ~empty(df)
        THEN fillna(assign(df, "Date", to_datetime(column(df, "Date"))), Dash)
        ELSE df

\* lines 335-341: the request of get_project_product_info, as far as the call of requests.get
get_project_product_info_request(symbol) ==
    LET url == base_url2 \o "assets/" \o symbol \o "/profile"
        headers == KeyHeader("")
        params == {<<"fields", "profile/general/overview/project_details,profile/technology">>}
    IN  requests_get(url, headers, params)

get_project_product_info(symbol, r) ==
    LET tr == get_project_product_info_request(symbol)
    IN  IF r.status_code = 200 THEN
            LET project_details == r.data.profile.general.overview.project_details
                technology_data == r.data.profile.technology
                technology_details == technology_data.overview.technology_details
                df_info == MetricValueFrame(<<"Project Details", "Technology Details">>,
                                            <<project_details, technology_details>>)
                repos == DataFrame(technology_data.overview.client_repositories, RepoKeys)
                df_repos == fillna(set_columns(repos, prettify_column_names(repos.columns)), Dash)
                df_audits == DatedFrame(technology_data.security.audits)
                df_vulns == DatedFrame(technology_data.security.known_exploits_and_vulnerabilities)
            IN  Returned(tr, <<>>, <<df_info, df_repos, df_audits, df_vulns>>, <<>>)
        ELSE IF r.status_code = 401 THEN
            Returned(tr, console_print(MsgInvalidKey), <<EmptyDF, EmptyDF, EmptyDF, EmptyDF>>, <<>>)
        ELSE Returned(tr, console_print(r.text), <<EmptyDF, EmptyDF, EmptyDF, EmptyDF>>, <<>>)

---------------------------------------------------------------------------
(* get_team, get_investors *)

IndividualKeys == <<"slug", "first_name", "last_name", "title", "description", "avatar_url">>
Individual(first, last, title) ==
    [slug |-> Str("person"), first_name |-> first, last_name |-> last, title |-> title,
     description |-> None, avatar_url |-> Str("https://img/person.png")]
IndividualRecords ==
    { Individual(Str("Ada"), Str("Lovelace"), Str("CTO")),
      Individual(None, Str("Hopper"), Str("Advisor")),
      Individual(Str("Satoshi"), None, None) }
OrganizationKeys == <<"slug", "name", "logo", "description">>
OrganizationRecords ==
    { [slug |-> Str("org"), name |-> Str("Blockstream"), logo |-> None, description |-> d] :
        d \in {None, Str("Infrastructure")} }
\* the two lists of a payload; lists of several records come with one or no
\* record in the other list
People ==
    { [individuals |-> p[1], organizations |-> p[2]] :
        p \in { q \in SeqsUpTo(IndividualRecords, MaxRows)
                         \X SeqsUpTo(OrganizationRecords, MaxRows) :
                    Len(q[1]) <= 1 \/ Len(q[2]) <= 1 } }
TeamResponses == {Ok([profile |-> [contributors |-> p]]) : p \in People} \cup FailResponses
InvestorsResponses == {Ok([profile |-> [investors |-> p]]) : p \in People} \cup FailResponses

\* " ".join(x) over the two name cells, in the reverse order
join_names_swapped(df) ==
    [i \in DOMAIN df.rows |->
        Str(df.rows[i]["last_name"].v \o " " \o df.rows[i]["first_name"].v)]

\* lambda x: " ".join(x) applied to df[["first_name", "last_name"]], row by row
join_names(df) ==
    [i \in DOMAIN df.rows |->
        Str(df.rows[i]["first_name"].v \o " " \o df.rows[i]["last_name"].v)]

\* lines 411-431 (get_team) and 486-504 (get_investors): the individuals table
shape_individuals(records) ==
    LET df == DataFrame(records, IndividualKeys)
    IN  IF ~empty(df)
        THEN LET filled == fillna(df, Dash)
                 dropped == drop(insert0(filled, "Name", join_names(filled)),
                                 {"slug", "avatar_url", "first_name", "last_name"})
             IN  replace_none(set_columns(dropped, map_capitalize(dropped.columns)), Dash)
        ELSE df

\* lines 432-444 (get_team) and 505-517 (get_investors): the organizations table
shape_organizations(records) ==
    LET df == DataFrame(records, OrganizationKeys)
    IN  IF ~empty(df)
        THEN LET dropped == drop(df, {"slug", "logo"})
             IN  replace_none(set_columns(dropped, map_capitalize(dropped.columns)), Dash)
        ELSE df

\* lines 397-403: the request of get_team, as far as the call of requests.get
get_team_request(symbol) ==
    LET url == base_url2 \o "assets/" \o symbol \o "/profile"
        headers == KeyHeader(API_MESSARI_KEY)
        params == {<<"fields", "profile/contributors">>}
    IN  requests_get(url, headers, params)

get_team(symbol, r) ==
    LET tr == get_team_request(symbol)
    IN  IF r.status_code = 200 THEN
            Returned(tr, <<>>,
                     << shape_individuals(r.data.profile.contributors.individuals),
                        shape_organizations(r.data.profile.contributors.organizations) >>,
                     <<>>)
        ELSE IF r.status_code = 401 THEN
            Returned(tr, console_print(MsgInvalidKey), <<EmptyDF, EmptyDF>>, <<>>)
        ELSE Returned(tr, console_print(r.text), <<EmptyDF, EmptyDF>>, <<>>)

\* lines 472-478: the request of get_investors, as far as the call of requests.get
get_investors_request(symbol) ==
    LET url == base_url2 \o "assets/" \o symbol \o "/profile"
        headers == KeyHeader(API_MESSARI_KEY)
        params == {<<"fields", "profile/investors">>}
    IN  requests_get(url, headers, params)

get_investors(symbol, r) ==
    LET tr == get_investors_request(symbol)
    IN  IF r.status_code = 200 THEN
            Returned(tr, <<>>,
                     << shape_individuals(r.data.profile.investors.individuals),
                        shape_organizations(r.data.profile.investors.organizations) >>,
                     <<>>)
        ELSE IF r.status_code = 401 THEN
            Returned(tr, console_print(MsgInvalidKey), <<EmptyDF, EmptyDF>>, <<>>)
        ELSE Returned(tr, console_print(r.text), <<EmptyDF, EmptyDF>>, <<>>)

---------------------------------------------------------------------------
(* get_governance *)

\* the strings over the characters of `alphabet` of length at most n
RECURSIVE StringsUpTo(_, _)
StringsUpTo(alphabet, n) ==
    IF n = 0 THEN {""}
    ELSE LET shorter == StringsUpTo(alphabet, n - 1)
         IN  shorter \cup {s \o c : s \in {t \in shorter : Len(t) = n - 1}, c \in alphabet}

SummaryAlphabet == {"<", ">", "a"}
Summaries == {None} \cup {Str(s) : s \in StringsUpTo(SummaryAlphabet, MaxLen)}
GovernanceData(summary, type, details) ==
    [profile |-> [governance |->
        [governance_details |-> summary,
         onchain_governance |-> [onchain_governance_type |-> type,
                                 onchain_governance_details |-> details]]]]
GovernanceResponses ==
    { Ok(GovernanceData(s, t, d)) :
        s \in Summaries, t \in {None, Str("Delegative")}, d \in {None, Str("On-chain votes")} }
    \cup FailResponses

\* lines 557-561: both on-chain fields are not None
both_present(onchain) ==
    onchain.onchain_governance_type # None /\ onchain.onchain_governance_details # None

\* lines 545-551: the request of get_governance, as far as the call of requests.get
get_governance_request(symbol) ==
    LET url == base_url2 \o "assets/" \o symbol \o "/profile"
        headers == KeyHeader(API_MESSARI_KEY)
        params == {<<"fields", "profile/governance">>}
    IN  requests_get(url, headers, params)

get_governance(symbol, r) ==
    LET tr == get_governance_request(symbol)
    IN  IF r.status_code = 200 THEN
            LET governance_data == r.data.profile.governance
                onchain == governance_data.onchain_governance
            IN  \* re.sub raises TypeError on None
                IF governance_data.governance_details.k # "str" THEN Raised(tr, <<>>, "TypeError")
                ELSE IF both_present(onchain)
                THEN Returned(tr, <<>>,
                              << MetricValueFrame(<<"Type", "Details">>,
                                                  << onchain.onchain_governance_type,
                                                     onchain.onchain_governance_details >>) >>,
                              << Str(re_sub_tags(governance_data.governance_details.v)) >>)
                ELSE Returned(tr, <<>>, <<EmptyDF>>,
                              << Str(re_sub_tags(governance_data.governance_details.v)) >>)
        ELSE IF r.status_code = 401 THEN
            Returned(tr, console_print(MsgInvalidKey), <<EmptyDF>>, <<Str("")>>)
        ELSE Returned(tr, console_print(r.text), <<EmptyDF>>, <<Str("")>>)

---------------------------------------------------------------------------
(* get_fundraising *)

List(seq) == [k |-> "list", v |-> seq]

\* str(x) inside an f-string
PyStr(cell) == IF cell.k = "none" THEN "None" ELSE cell.v

\* format_addresses(x) for a list x
RECURSIVE format_address_list(_)
format_address_list(x) ==
    IF x = <<>> THEN ""
    ELSE PyStr(x[1].name) \o ": " \o PyStr(x[1].link) \o format_address_list(Tail(x))

format_addresses(cell) == Str(format_address_list(cell.v))

\* Series.map(format_addresses)
map_format_addresses(cells) == [i \in DOMAIN cells |-> format_addresses(cells[i])]

Digits == "0123456789"

\* str(n) for n >= 0
RECURSIVE IntToStr(_)
IntToStr(n) ==
    IF n < 10 THEN Char(Digits, n + 1)
    ELSE IntToStr(n \div 10) \o Char(Digits, (n % 10) + 1)

RECURSIVE Magnitude(_)
Magnitude(n) == IF n >= 1000 THEN 1 + Magnitude(n \div 1000) ELSE 0

RECURSIVE Thousands(_)
Thousands(m) == IF m = 0 THEN 1 ELSE 1000 * Thousands(m - 1)

\* helper_funcs.lambda_long_number_format on a whole number that is a multiple of
\* its magnitude: the number in units of its magnitude and the magnitude's letter
lambda_long_number_format(cell) ==
    LET m == Magnitude(cell.v)
        digits == IntToStr(cell.v \div Thousands(m))
    IN  Str(IF m = 0 THEN digits ELSE digits \o " " \o Char("KMBTP", m))

\* lambda x: x[col].split("T")[0], with "-" as the separator
split_date_dash(cells) == [i \in DOMAIN cells |-> Str(SplitFirst(cells[i].v, "-"))]

\* df.apply(lambda x: x[col].split("T")[0], axis=1) on the cells of the column col
split_date(cells) == [i \in DOMAIN cells |-> Str(SplitFirst(cells[i].v, "T"))]

SalesRoundKeys ==
    << "title", "start_date", "end_date", "type", "details", "native_tokens_allocated",
       "asset_collected", "price_per_token_in_asset", "equivalent_price_per_token_in_usd",
       "amount_collected_in_asset", "amount_collected_in_usd", "is_kyc_required",
       "restricted_jurisdictions" >>
SalesRound(start, end, tokens) ==
    [title |-> Str("Seed"), start_date |-> start, end_date |-> end, type |-> Str("Private"),
     details |-> None, native_tokens_allocated |-> tokens, asset_collected |-> Str("USD"),
     price_per_token_in_asset |-> None, equivalent_price_per_token_in_usd |-> Num(2),
     amount_collected_in_asset |-> None, amount_collected_in_usd |-> None,
     is_kyc_required |-> Bool(TRUE), restricted_jurisdictions |-> None]
SalesRoundRecords ==
    { SalesRound(Str("2021-06-01T00:00:00Z"), Str("2021-06-30T12:30:00Z"), Num(1000)),
      SalesRound(None, Str("2017-07-01T00:00:00Z"), None),
      SalesRound(Str("2014-07-22"), None, Num(5)) }

\* longest list of treasury accounts in a payload
MaxAccounts == 1
TreasuryKeys == <<"account_type", "asset_held", "addresses", "security">>
TreasuryRecords ==
    { [account_type |-> Str("Foundation"), asset_held |-> Str("ETH"),
       addresses |-> List(<< [name |-> Str("Main"), link |-> Str("https://scan/1")] >>),
       security |-> None],
      [account_type |-> None, asset_held |-> None,
       addresses |-> List(<< [name |-> Str("Cold"), link |-> Str("https://scan/2")],
                             [name |-> None, link |-> Str("https://scan/3")] >>),
       security |-> Str("Multisig")],
      [account_type |-> Str("Team"), asset_held |-> None, addresses |-> None,
       security |-> None] }

Distribution(genesis, investors) ==
    [genesis_block_date |-> genesis,
     initial_supply |-> IF investors = None THEN Num(500) ELSE Num(21000000),
     initial_supply_repartition |->
        [allocated_to_investors_percentage |-> investors,
         allocated_to_organization_or_founders_percentage |-> Num(20),
         allocated_to_premined_rewards_or_airdrops_percentage |-> None]]
Distributions ==
    { Distribution(Str("2009-01-03T18:15:05Z"), Num(10)),
      Distribution(None, None),
      Distribution(Str(""), Num(35)) }

LaunchData(details, style, rounds, accounts, distribution) ==
    [profile |-> [economics |-> [launch |->
        [general |-> [launch_details |-> details, launch_style |-> style],
         fundraising |-> [sales_rounds |-> rounds, sales_treasury_accounts |-> accounts],
         initial_distribution |-> distribution]]]]
\* the two lists of a payload; several sales rounds come without treasury accounts
Fundraisings ==
    { f \in SeqsUpTo(SalesRoundRecords, MaxRows) \X SeqsUpTo(TreasuryRecords, MaxAccounts) :
        Len(f[1]) <= 1 \/ f[2] = << >> }
FundraisingResponses ==
    { Ok(LaunchData(g[1], g[2], f[1], f[2], di)) :
        g \in { <<None, None>>, <<Str("Launched by a fair sale"), Str("ICO")>> },
        f \in Fundraisings,
        di \in Distributions } \cup FailResponses

\* the columns.rename of lines 663-670
RenameRound(c) ==
    CASE c = "Native Tokens Allocated" -> "Tokens Allocated"
      [] c = "Equivalent Price Per Token In Usd" -> "Price [$]"
      [] c = "Amount Collected In Usd" -> "Amount Collected [$]"
      [] OTHER -> c

rename_rounds(columns) == [i \in DOMAIN columns |-> RenameRound(columns[i])]

\* lines 635-671: the sales-rounds table
shape_sales_rounds(records) ==
    LET df == DataFrame(records, SalesRoundKeys)
    IN  IF ~empty(df) THEN
            LET filled == fillna(df, Dash)
                dropped == drop(filled, {"details", "asset_collected", "price_per_token_in_asset",
                                         "amount_collected_in_asset", "is_kyc_required",
                                         "restricted_jurisdictions"})
                named == set_columns(dropped, replace_underscores(dropped.columns))
                started == assign(named, "Start Date", split_date(column(named, "Start Date")))
                ended == assign(started, "End Date", split_date(column(started, "End Date")))
            IN  fillna(set_columns(ended, rename_rounds(ended.columns)), Dash)
        ELSE df

\* lines 673-686: the treasury-accounts table (every addresses cell is a list)
shape_treasury_accounts(records) ==
    LET df == DataFrame(records, TreasuryKeys)
    IN  IF ~empty(df) THEN
            LET named == set_columns(df, replace_underscores(df.columns))
                dropped == drop(named, {"Asset Held", "Security"})
            IN  assign(dropped, "Addresses", map_format_addresses(column(dropped, "Addresses")))
        ELSE df

\* a truthy str (neither None nor "")
Truthy(cell) == cell.k = "str" /\ cell.v # ""

\* lines 687-718: the six-row launch-distribution table
launch_distribution_frame(launch_data, launch_type) ==
    LET dist == launch_data.initial_distribution
    IN  MetricValueFrame(
            << "Genesis Date", "Type", "Total Supply", "Investors [%]",
               "Organization/Founders [%]", "Rewards/Airdrops [%]" >>,
            << IF Truthy(dist.genesis_block_date)
               THEN Str(SplitFirst(dist.genesis_block_date.v, "T")) ELSE Dash,
               launch_type,
               lambda_long_number_format(dist.initial_supply),
               dist.initial_supply_repartition.allocated_to_investors_percentage,
               dist.initial_supply_repartition.allocated_to_organization_or_founders_percentage,
               dist.initial_supply_repartition.allocated_to_premined_rewards_or_airdrops_percentage >>)

\* lines 621-627: the request of get_fundraising, as far as the call of requests.get
get_fundraising_request(symbol) ==
    LET url == base_url2 \o "assets/" \o symbol \o "/profile"
        headers == KeyHeader(API_MESSARI_KEY)
        params == {<<"fields", "profile/economics/launch">>}
    IN  requests_get(url, headers, params)

get_fundraising(symbol, r) ==
    LET tr == get_fundraising_request(symbol)
    IN  IF r.status_code = 200 THEN
            LET launch_data == r.data.profile.economics.launch
                launch_details == launch_data.general.launch_details
                launch_type == launch_data.general.launch_style
                accounts == launch_data.fundraising.sales_treasury_accounts
            IN  \* format_addresses iterates its argument: TypeError on None
                IF \E i \in DOMAIN accounts : accounts[i].addresses = None
                THEN Raised(tr, <<>>, "TypeError")
                ELSE Returned(tr, <<>>,
                              << shape_sales_rounds(launch_data.fundraising.sales_rounds),
                                 shape_treasury_accounts(accounts),
                                 launch_distribution_frame(launch_data, launch_type) >>,
                              << launch_details >>)
        ELSE IF r.status_code = 401 THEN
            Returned(tr, console_print(MsgInvalidKey), <<EmptyDF, EmptyDF, EmptyDF>>, <<Str("")>>)
        ELSE Returned(tr, console_print(r.text), <<EmptyDF, EmptyDF, EmptyDF>>, <<Str("")>>)

---------------------------------------------------------------------------
(* The state machine *)

\* A call of a public function is a sequence of steps, one per wait.  The
\* function runs from its entry to requests.get (it builds the url, reads the
\* configured key into its headers and sends the request) and waits; when the
\* response comes it runs on to its end (return or exception).  get_tokenomics
\* on a 200 goes on to the collaborator and waits for it, then to the nested
\* timeseries request, which reads the configured key when it is made, and
\* waits for that.  The configuration belongs to the caller's process: the key
\* may be set at any moment, between calls, while a call waits and after it.
Idle == outcome = "none"

\* a call is under way and waits at the last event of its trace
Pending == outcome = "pending"

\* a call has come to its end (return or exception)
Finished == outcome \notin {"none", "pending"}

\* the call waits in requests.get
InRequest == Pending /\ trace[Len(trace)].op = "GET"

\* the call waits in the collaborator get_coin_tokenomics
InCollaborator == Pending /\ trace[Len(trace)].op = "get_coin_tokenomics"

\* no call is remembered
NoCall == [fn |-> ""]

\* what a call that has not come to its end has returned
NoResult == [tables |-> <<>>, texts |-> <<>>]

\* the function `name` is called with the arguments a and runs as far as its
\* requests.get, sending the request tr
Send(name, a, tr) ==
    /\ fn' = name
    /\ args' = a
    /\ responses' = <<>>
    /\ cg_df' = EmptyDF
    /\ trace' = tr
    /\ sink' = <<>>
    /\ outcome' = "pending"
    /\ ret' = NoResult
    /\ UNCHANGED <<API_MESSARI_KEY, prev>>

\* In the second of two calls requests.get hands out the response objects it
\* handed out in the first, in the state the first call has left them in.  No
\* function writes into a response: each reads r.status_code, r.text and
\* r.json(), and pd.DataFrame copies the lists it is given.
SameAnswer(r) == prev # NoCall => r = prev.responses[Len(responses) + 1]

\* requests.get hands the response r to the waiting function, which runs to its
\* end with the result res
Receive(r, res) ==
    /\ responses' = Append(responses, r)
    /\ sink' = res.sink
    /\ outcome' = res.outcome
    /\ ret' = res.ret
    /\ UNCHANGED <<API_MESSARI_KEY, fn, args, cg_df, trace, prev>>

\* as Receive, for a function that was handed a frame by the collaborator: cg
\* is that frame as the function leaves it
Returns(r, res, cg) ==
    /\ responses' = Append(responses, r)
    /\ cg_df' = cg
    /\ sink' = res.sink
    /\ outcome' = res.outcome
    /\ ret' = res.ret
    /\ UNCHANGED <<API_MESSARI_KEY, fn, args, trace, prev>>

Call_get_links ==
    /\ Idle
    /\ \E symbol \in Symbols :
            Send("get_links", [symbol |-> symbol], get_links_request(symbol))

Return_get_links ==
    /\ InRequest
    /\ fn = "get_links"
    /\ \E r \in LinksResponses :
            /\ SameAnswer(r)
            /\ Receive(r, get_links(args.symbol, r))

Call_get_available_timeseries ==
    /\ Idle
    /\ Send("get_available_timeseries", <<>>, get_available_timeseries_request)

Return_get_available_timeseries ==
    /\ InRequest
    /\ fn = "get_available_timeseries"
    /\ \E r \in MetricsResponses :
            /\ SameAnswer(r)
            /\ Receive(r, get_available_timeseries(r))

Call_get_messari_timeseries ==
    /\ Idle
    /\ \E coin \in Symbols, id \in TimeseriesIds, interval \in Intervals, range \in DateRanges :
            Send("get_messari_timeseries",
                 [coin |-> coin, timeseries_id |-> id, interval |-> interval,
                  start |-> range[1], end |-> range[2]],
                 get_messari_timeseries_request(coin, id, interval, range[1], range[2]))

Return_get_messari_timeseries ==
    /\ InRequest
    /\ fn = "get_messari_timeseries"
    /\ \E r \in TimeseriesResponses :
            /\ SameAnswer(r)
            /\ Receive(r, get_messari_timeseries(args.coin, args.timeseries_id, args.interval,
                                                 args.start, args.end, r))

Call_get_marketcap_dominance ==
    /\ Idle
    /\ \E coin \in Symbols, interval \in Intervals, range \in DateRanges :
            Send("get_marketcap_dominance",
                 [coin |-> coin, interval |-> interval, start |-> range[1], end |-> range[2]],
                 get_marketcap_dominance_request(coin, interval, range[1], range[2]))

Return_get_marketcap_dominance ==
    /\ InRequest
    /\ fn = "get_marketcap_dominance"
    /\ \E r \in TimeseriesResponses :
            /\ SameAnswer(r)
            /\ Receive(r, get_marketcap_dominance(args.coin, args.interval, args.start,
                                                  args.end, r))

Call_get_roadmap ==
    /\ Idle
    /\ \E symbol \in Symbols :
            Send("get_roadmap", [symbol |-> symbol], get_roadmap_request(symbol))

Return_get_roadmap ==
    /\ InRequest
    /\ fn = "get_roadmap"
    /\ \E r \in RoadmapResponses :
            /\ SameAnswer(r)
            /\ Receive(r, get_roadmap(args.symbol, r))

\* lines 261-267: get_tokenomics sends the profile request
Call_get_tokenomics ==
    /\ Idle
    /\ \E symbol \in Symbols, coingecko_symbol \in CoingeckoIds :
            Send("get_tokenomics", [symbol |-> symbol, coingecko_symbol |-> coingecko_symbol],
                 get_tokenomics_request(symbol))

\* lines 267-293 and 303-308: the profile response comes.  On a 200 the function
\* builds its table and calls the collaborator; any other status ends the call.
Respond_get_tokenomics ==
    /\ InRequest
    /\ fn = "get_tokenomics"
    /\ responses = <<>>
    /\ \E r \in TokenomicsResponses :
            /\ SameAnswer(r)
            /\ IF r.status_code = 200
               THEN /\ responses' = <<r>>
                    /\ trace' = trace \o get_coin_tokenomics(args.coingecko_symbol)
                    /\ UNCHANGED <<API_MESSARI_KEY, fn, args, cg_df, sink, outcome, ret, prev>>
               ELSE Receive(r, get_tokenomics(args.symbol, args.coingecko_symbol, <<r>>, EmptyDF))

\* the collaborator hands the frame cg to the waiting get_tokenomics, which
\* enters get_messari_timeseries; that reads the configured key and sends the
\* circulating-supply request (lines 293, 296-302 with 127-137)
Handed(cg) ==
    /\ cg_df' = cg
    /\ trace' = trace \o get_tokenomics_supply_request(args.symbol)
    /\ UNCHANGED <<API_MESSARI_KEY, fn, args, responses, sink, outcome, ret, prev>>

\* The collaborator returns.  In the first call it hands over any of its
\* tables; in the second of two calls it hands over the same frame object
\* again, in the state the first call has left it in (cg_df).
Return_get_coin_tokenomics ==
    /\ InCollaborator
    /\ IF prev = NoCall
       THEN \E cg \in CgTables : Handed(cg)
       ELSE Handed(cg_df)

\* lines 137-159 and 294-308: the response to the circulating-supply request
\* comes; get_messari_timeseries and then get_tokenomics return.  The join of
\* lines 294-295 is local work between the collaborator's return and the nested
\* call; its effect on the collaborator's frame is recorded here, with the result.
Return_get_tokenomics ==
    /\ InRequest
    /\ fn = "get_tokenomics"
    /\ Len(responses) = 1
    /\ \E r2 \in TimeseriesResponses :
            /\ SameAnswer(r2)
            /\ Returns(r2, get_tokenomics(args.symbol, args.coingecko_symbol,
                                          <<responses[1], r2>>, cg_df),
                       join_coingecko_df(tokenomics_frame(responses[1]), cg_df).coingecko_df)

Call_get_project_product_info ==
    /\ Idle
    /\ \E symbol \in Symbols :
            Send("get_project_product_info", [symbol |-> symbol],
                 get_project_product_info_request(symbol))

Return_get_project_product_info ==
    /\ InRequest
    /\ fn = "get_project_product_info"
    /\ \E r \in ProductResponses :
            /\ SameAnswer(r)
            /\ Receive(r, get_project_product_info(args.symbol, r))

Call_get_team ==
    /\ Idle
    /\ \E symbol \in Symbols :
            Send("get_team", [symbol |-> symbol], get_team_request(symbol))

Return_get_team ==
    /\ InRequest
    /\ fn = "get_team"
    /\ \E r \in TeamResponses :
            /\ SameAnswer(r)
            /\ Receive(r, get_team(args.symbol, r))

Call_get_investors ==
    /\ Idle
    /\ \E symbol \in Symbols :
            Send("get_investors", [symbol |-> symbol], get_investors_request(symbol))

Return_get_investors ==
    /\ InRequest
    /\ fn = "get_investors"
    /\ \E r \in InvestorsResponses :
            /\ SameAnswer(r)
            /\ Receive(r, get_investors(args.symbol, r))

Call_get_governance ==
    /\ Idle
    /\ \E symbol \in Symbols :
            Send("get_governance", [symbol |-> symbol], get_governance_request(symbol))

Return_get_governance ==
    /\ InRequest
    /\ fn = "get_governance"
    /\ \E r \in GovernanceResponses :
            /\ SameAnswer(r)
            /\ Receive(r, get_governance(args.symbol, r))

Call_get_fundraising ==
    /\ Idle
    /\ \E symbol \in Symbols :
            Send("get_fundraising", [symbol |-> symbol], get_fundraising_request(symbol))

Return_get_fundraising ==
    /\ InRequest
    /\ fn = "get_fundraising"
    /\ \E r \in FundraisingResponses :
            /\ SameAnswer(r)
            /\ Receive(r, get_fundraising(args.symbol, r))

\* cfg.API_MESSARI_KEY is set to another key.  The module reads it when it
\* builds the headers of a request and never writes it; whoever owns the
\* configuration may set it at any moment, whatever the caller is doing.
Configure ==
    /\ \E key \in Keys :
            /\ key # API_MESSARI_KEY
            /\ API_MESSARI_KEY' = key
    /\ UNCHANGED <<fn, args, responses, cg_df, trace, sink, outcome, ret, prev>>

\* The caller drops the call's request, response and tables: nothing of a call
\* outlives it except the configured key.
Discard ==
    /\ Finished
    /\ fn' = ""
    /\ args' = <<>>
    /\ responses' = <<>>
    /\ cg_df' = EmptyDF
    /\ trace' = <<>>
    /\ sink' = <<>>
    /\ outcome' = "none"
    /\ ret' = NoResult
    /\ prev' = NoCall
    /\ UNCHANGED API_MESSARI_KEY

Init ==
    /\ API_MESSARI_KEY \in Keys
    /\ fn = ""
    /\ args = <<>>
    /\ responses = <<>>
    /\ cg_df = EmptyDF
    /\ trace = <<>>
    /\ sink = <<>>
    /\ outcome = "none"
    /\ ret = NoResult
    /\ prev = NoCall

Next ==
    \/ Call_get_available_timeseries
    \/ Return_get_available_timeseries
    \/ Call_get_messari_timeseries
    \/ Return_get_messari_timeseries
    \/ Call_get_marketcap_dominance
    \/ Return_get_marketcap_dominance
    \/ Call_get_links
    \/ Return_get_links
    \/ Call_get_roadmap
    \/ Return_get_roadmap
    \/ Call_get_tokenomics
    \/ Respond_get_tokenomics
    \/ Return_get_coin_tokenomics
    \/ Return_get_tokenomics
    \/ Call_get_project_product_info
    \/ Return_get_project_product_info
    \/ Call_get_team
    \/ Return_get_team
    \/ Call_get_investors
    \/ Return_get_investors
    \/ Call_get_governance
    \/ Return_get_governance
    \/ Call_get_fundraising
    \/ Return_get_fundraising
    \/ Configure
    \/ Discard

Spec == Init /\ [][Next]_vars

\* The request the function `name` sends first when called with the arguments a
Request(name, a) ==
    CASE name = "get_available_timeseries" -> get_available_timeseries_request
      [] name = "get_messari_timeseries" ->
            get_messari_timeseries_request(a.coin, a.timeseries_id, a.interval, a.start, a.end)
      [] name = "get_marketcap_dominance" ->
            get_marketcap_dominance_request(a.coin, a.interval, a.start, a.end)
      [] name = "get_links" -> get_links_request(a.symbol)
      [] name = "get_roadmap" -> get_roadmap_request(a.symbol)
      [] name = "get_tokenomics" -> get_tokenomics_request(a.symbol)
      [] name = "get_project_product_info" -> get_project_product_info_request(a.symbol)
      [] name = "get_team" -> get_team_request(a.symbol)
      [] name = "get_investors" -> get_investors_request(a.symbol)
      [] name = "get_governance" -> get_governance_request(a.symbol)
      [] name = "get_fundraising" -> get_fundraising_request(a.symbol)

\* what is kept of a finished call: its inputs and everything it produced
CallRecord ==
    [fn |-> fn, args |-> args, responses |-> responses, cg_df |-> cg_df,
     trace |-> trace, sink |-> sink, outcome |-> outcome, ret |-> ret]

\* The caller makes the call it has just made once more: the same function and
\* the same arguments, against the same mocks (SameAnswer for requests.get,
\* Return_get_coin_tokenomics for the collaborator, whose frame cg_df stays as
\* the first call has left it).  The first call is kept in prev; the second
\* starts in whatever state the first has left and reads the key configured
\* when it sends its request.
Repeat ==
    /\ Finished
    /\ prev = NoCall
    /\ prev' = CallRecord
    /\ responses' = <<>>
    /\ trace' = Request(fn, args)
    /\ sink' = <<>>
    /\ outcome' = "pending"
    /\ ret' = NoResult
    /\ UNCHANGED <<API_MESSARI_KEY, fn, args, cg_df>>

NextTwice ==
    \/ Next
    \/ Repeat

\* calls, each possibly made a second time
SpecTwice == Init /\ [][NextTwice]_vars

---------------------------------------------------------------------------
(* Properties *)

\* the HTTP requests of the call, in order
Gets == SelectSeq(trace, LAMBDA e : e.op = "GET")

\* the call printed msg (on either channel)
Printed(msg) == \E i \in DOMAIN sink : sink[i].msg = msg

\* a call has run to its end and has not been discarded
CallDone == Finished

AllTablesEmpty == \A i \in DOMAIN ret.tables : empty(ret.tables[i])

\* the nine shapers of the profile and timeseries resources
Shapers ==
    { "get_messari_timeseries", "get_links", "get_roadmap", "get_tokenomics",
      "get_project_product_info", "get_team", "get_investors", "get_governance",
      "get_fundraising" }

\* C1: for every shaper and every 401 response, a body with the tier-restriction
\* marker makes the shaper print the tier-specific message and not the generic
\* invalid-key message, a body without it makes the shaper print the generic
\* invalid-key message, and in both cases every returned table is empty.
C1_TierMessageOn401 ==
    (CallDone /\ fn \in Shapers /\ responses[1].status_code = 401) =>
        /\ IF Contains(responses[1].text, TierMarker)
           THEN Printed(MsgPremium) /\ ~Printed(MsgInvalidKey)
           ELSE Printed(MsgInvalidKey)
        /\ AllTablesEmpty

\* C2: for every public fetch function (get_available_timeseries included) and
\* every response whose status is neither 200 nor 401, the raw body text is
\* printed, every returned table is empty and every returned text is "".
C2_RawBodyOnOtherStatus ==
    (CallDone /\ responses[1].status_code \notin {200, 401}) =>
        /\ Printed(responses[1].text)
        /\ AllTablesEmpty
        /\ \A i \in DOMAIN ret.texts : ret.texts[i] = Str("")

\* the list-valued payloads of the first response of the call, each with the
\* position in the returned tuple of the table built from it
ListPayloads ==
    LET d == responses[1].data
    IN  CASE fn = "get_available_timeseries" -> << <<d.metrics, 1>> >>
          [] fn = "get_links" -> << <<d.profile.general.overview.official_links, 1>> >>
          [] fn = "get_roadmap" -> << <<d.profile.general.roadmap, 1>> >>
          [] fn = "get_project_product_info" ->
                << <<d.profile.technology.overview.client_repositories, 2>>,
                   <<d.profile.technology.security.audits, 3>>,
                   <<d.profile.technology.security.known_exploits_and_vulnerabilities, 4>> >>
          [] fn = "get_team" ->
                << <<d.profile.contributors.individuals, 1>>,
                   <<d.profile.contributors.organizations, 2>> >>
          [] fn = "get_investors" ->
                << <<d.profile.investors.individuals, 1>>,
                   <<d.profile.investors.organizations, 2>> >>
          [] fn = "get_fundraising" ->
                << <<d.profile.economics.launch.fundraising.sales_rounds, 1>>,
                   <<d.profile.economics.launch.fundraising.sales_treasury_accounts, 2>> >>
          [] OTHER -> << >>

\* C3: for every fetch function and every 200 response whose list payloads are
\* empty, the call returns normally (no exception) and the table of each empty
\* payload is empty.
C3_EmptyListReturnsEmptyTable ==
    (/\ CallDone
     /\ responses[1].status_code = 200
     /\ ListPayloads # << >>
     /\ \A i \in DOMAIN ListPayloads : ListPayloads[i][1] = << >>) =>
        /\ outcome = "returned"
        /\ \A i \in DOMAIN ListPayloads : empty(ret.tables[ListPayloads[i][2]])

\* C4 as stated: every call of a public fetch function issues exactly one GET,
\* get_tokenomics like the others.
C4_OneGetPerCall == CallDone => Len(Gets) = 1

\* C4, amended: every call issues exactly one GET, except a get_tokenomics call
\* whose profile request returned 200, which issues exactly two (the profile
\* request, then the circulating-supply timeseries request); every request
\* issued received its response.
C4_GetsPerCall ==
    CallDone =>
        /\ Len(Gets) = (IF fn = "get_tokenomics" /\ responses[1].status_code = 200
                        THEN 2 ELSE 1)
        /\ Len(Gets) = Len(responses)

C4_Witness ==
    /\ fn = "get_tokenomics"
    /\ outcome = "returned"
    /\ responses[1].status_code = 200
    /\ Len(Gets) = 2
    /\ Gets[1].url # Gets[2].url

\* C5: every request of the module carries the header x-messari-api-key with
\* the configured key as its value, the key being the one configured when the
\* request is sent; the only exception is the profile request of
\* get_tokenomics, which carries an empty key.  Stated of every step: the
\* requests a step adds to the trace carry the key configured in the state the
\* step is taken from.
C5_EveryRequestCarriesKey ==
    [][\A i \in (Len(trace) + 1)..Len(trace') :
            trace'[i].op = "GET" =>
                trace'[i].headers =
                    KeyHeader(IF fn' = "get_tokenomics" /\ i = 1 THEN "" ELSE API_MESSARI_KEY)]_vars

\* a finished timeseries call whose response was a 200
TimeseriesCall ==
    /\ CallDone
    /\ fn \in {"get_messari_timeseries", "get_marketcap_dominance"}
    /\ responses[1].status_code = 200

\* the notice naming the queried asset
NoDataNotice == "No data found for " \o args.coin \o ".\n"

\* C6: get_messari_timeseries (and get_marketcap_dominance through it) on a 200
\* response.  With an empty values array the returned table is empty, the
\* notice naming the queried asset is the one line printed, and the table keeps
\* its default index and its timestamp column (no index is set, no date-time is
\* made).  With a non-empty values array nothing is printed, the timestamp
\* column has become the index, and the i-th index value is the instant
\* values[i][1] milliseconds after the epoch; the value column is untouched.
C6_TimeseriesTable ==
    TimeseriesCall =>
        LET values == responses[1].data.values
            df == ret.tables[1]
        IN  /\ outcome = "returned"
            /\ IF values = << >>
               THEN /\ empty(df)
                    /\ sink = console_print(NoDataNotice)
                    /\ df.index = RangeIndex
                    /\ df.columns = <<"timestamp", "value">>
               ELSE /\ ~Printed(NoDataNotice)
                    /\ sink = << >>
                    /\ ~empty(df)
                    /\ df.columns = <<"value">>
                    /\ df.index.name = "timestamp"
                    /\ df.index.kind = "datetime"
                    /\ Len(df.index.values) = Len(values)
                    /\ Len(df.rows) = Len(values)
                    /\ \A i \in DOMAIN values :
                          LET t == df.index.values[i]
                          IN  /\ t.k = "datetime"
                              /\ t.msec \in 0..999
                              /\ t.sec * 1000 + t.msec = values[i][1]
                              /\ df.rows[i]["value"] = Num(values[i][2])

C6_Witness ==
    /\ TimeseriesCall
    /\ responses[1].data.values = << >>
    /\ empty(ret.tables[1])
    /\ sink = console_print("No data found for btc.\n")

\* position p of s lies inside a substring that "<[^>]*>" matches: a "<" at or
\* before p with no ">" between it and p, and a ">" at or after p
InTag(s, p) ==
    /\ \E i \in 1..p : Char(s, i) = "<" /\ \A k \in i..(p - 1) : Char(s, k) # ">"
    /\ \E j \in p..Len(s) : Char(s, j) = ">"

\* s without the characters that lie inside a tag, from position p on
RECURSIVE Untagged(_, _)
Untagged(s, p) ==
    IF p > Len(s) THEN ""
    ELSE (IF InTag(s, p) THEN "" ELSE Char(s, p)) \o Untagged(s, p + 1)

\* s holds a "<" with a ">" somewhere after it
HasTag(s) == \E i \in 1..Len(s) : \E j \in (i + 1)..Len(s) : Char(s, i) = "<" /\ Char(s, j) = ">"

\* a finished get_governance call whose response was a 200
GovernanceCall ==
    /\ CallDone
    /\ fn = "get_governance"
    /\ responses[1].status_code = 200

\* the summary the claim expects back: the text with every tag removed, and
\* nothing to remove in a null summary
ExpectedSummary(cell) == IF cell.k = "str" THEN Str(Untagged(cell.v, 1)) ELSE cell

\* C7: get_governance on a 200 response returns the summary with every
\* substring matching <...> removed, so that no tag is left in it; the returned
\* table is the two-row Metric/Value table with rows Type and Details exactly
\* when the on-chain governance type and details are both non-null, and the
\* empty table otherwise, the summary being returned in both cases.
C7_GovernanceSummaryAndTable ==
    GovernanceCall =>
        LET governance == responses[1].data.profile.governance
            onchain == governance.onchain_governance
            type == onchain.onchain_governance_type
            details == onchain.onchain_governance_details
        IN  /\ outcome = "returned"
            /\ ret.texts = << ExpectedSummary(governance.governance_details) >>
            /\ ret.texts[1].k = "str" => ~HasTag(ret.texts[1].v)
            /\ IF type # None /\ details # None
               THEN /\ ret.tables[1].columns = <<"Metric", "Value">>
                    /\ Len(ret.tables[1].rows) = 2
                    /\ ret.tables[1].rows[1] = [Metric |-> Str("Type"), Value |-> type]
                    /\ ret.tables[1].rows[2] = [Metric |-> Str("Details"), Value |-> details]
               ELSE ret.tables[1] = EmptyDF

\* C8: for every shaper and every 200 response, no cell of any returned table
\* holds a null, NaN or NaT marker.
C8_NoNullCell ==
    (CallDone /\ fn \in Shapers /\ outcome = "returned" /\ responses[1].status_code = 200) =>
        \A t \in DOMAIN ret.tables :
            \A i \in DOMAIN ret.tables[t].rows :
                \A c \in DOMAIN ret.tables[t].rows[i] : ~IsNA(ret.tables[t].rows[i][c])

\* the individuals list of a finished get_team or get_investors call
Individuals ==
    IF fn = "get_team" THEN responses[1].data.profile.contributors.individuals
    ELSE responses[1].data.profile.investors.individuals

\* a finished get_team or get_investors call on a 200 with individuals
PeopleCall ==
    /\ CallDone
    /\ fn \in {"get_team", "get_investors"}
    /\ responses[1].status_code = 200
    /\ Individuals # << >>

\* a name as the table shows it: a null name shows as the placeholder
ShownName(cell) == IF cell = None THEN "-" ELSE cell.v

RawIndividualColumns == {"first_name", "last_name", "slug", "avatar_url"}

\* C9: get_team and get_investors on a 200 response with a non-empty
\* individuals list: the individuals table has one row per record, the row's
\* "Name" is the record's first name, one space and its last name (a null name
\* counting as "-"), and the table has none of the raw first-name, last-name,
\* slug or avatar columns, under any capitalisation.
C9_NameSynthesis ==
    PeopleCall =>
        LET df == ret.tables[1]
        IN  /\ outcome = "returned"
            /\ Len(df.rows) = Len(Individuals)
            /\ \A i \in DOMAIN Individuals :
                  df.rows[i]["Name"] =
                      Str(ShownName(Individuals[i].first_name) \o " "
                          \o ShownName(Individuals[i].last_name))
            /\ \A c \in Range(df.columns) : LowerAll(c) \notin RawIndividualColumns
            /\ \A i \in DOMAIN df.rows : DOMAIN df.rows[i] = Range(df.columns)
            /\ "Name" \in Range(df.columns)

C9_Witness ==
    /\ PeopleCall
    /\ outcome = "returned"
    /\ \E i \in DOMAIN Individuals :
          /\ Individuals[i].first_name = Str("Ada")
          /\ Individuals[i].last_name = Str("Lovelace")
          /\ ret.tables[1].rows[i]["Name"] = Str("Ada Lovelace")

\* the sales rounds of a finished get_fundraising call
SalesRounds == responses[1].data.profile.economics.launch.fundraising.sales_rounds

\* a get_fundraising call that returned, on a 200 with sales rounds
FundraisingCall ==
    /\ fn = "get_fundraising"
    /\ outcome = "returned"
    /\ responses[1].status_code = 200
    /\ SalesRounds # << >>

\* shown is what the table shows for the date field `field` of a record: the
\* placeholder for a null, else the part of the text before its first "T"
IsDatePart(shown, field) ==
    IF field = None THEN shown = Dash
    ELSE /\ shown.k = "str"
         /\ Len(shown.v) <= Len(field.v)
         /\ SubSeq(field.v, 1, Len(shown.v)) = shown.v
         /\ \A p \in 1..Len(shown.v) : Char(shown.v, p) # "T"
         /\ Len(shown.v) = Len(field.v) \/ Char(field.v, Len(shown.v) + 1) = "T"

\* C10: get_fundraising on a 200 response with a non-empty sales-rounds list,
\* when it returns: the sales-rounds table has one row per round, whose "Start
\* Date" and "End Date" are the part of the round's timestamp before the "T",
\* and "-" for a round whose date is null.
C10_DateSplit ==
    FundraisingCall =>
        LET df == ret.tables[1]
        IN  /\ Len(df.rows) = Len(SalesRounds)
            /\ \A i \in DOMAIN SalesRounds :
                  /\ IsDatePart(df.rows[i]["Start Date"], SalesRounds[i].start_date)
                  /\ IsDatePart(df.rows[i]["End Date"], SalesRounds[i].end_date)

C10_Witness ==
    /\ FundraisingCall
    /\ \E i \in DOMAIN SalesRounds :
          /\ SalesRounds[i].start_date = Str("2021-06-01T00:00:00Z")
          /\ ret.tables[1].rows[i]["Start Date"] = Str("2021-06-01")
          /\ ret.tables[1].rows[i]["End Date"] = Str("2021-06-30")
    /\ \E i \in DOMAIN SalesRounds :
          /\ SalesRounds[i].start_date = None
          /\ ret.tables[1].rows[i]["Start Date"] = Dash

\* the configured keys the call with the trace tr has read: a function reads
\* cfg.API_MESSARI_KEY when it builds the headers of a request, nowhere else
KeysRead(tr) ==
    {key \in Keys : \E i \in DOMAIN tr :
                        tr[i].op = "GET" /\ <<"x-messari-api-key", key>> \in tr[i].headers}

\* the call in hand is the second of two calls of the same function with the
\* same arguments, answered by the same mocks; whatever key was configured
\* during either call
SecondOfTwo ==
    /\ CallDone
    /\ prev # NoCall
    /\ prev.fn = fn
    /\ prev.args = args

\* the outbound event e without the value of its key header
WithoutKey(e) ==
    IF e.op = "GET" THEN [e EXCEPT !.headers = {h[1] : h \in e.headers}] ELSE e

\* C11: determinism.  The second of two calls of a function with identical
\* arguments, answered by the same mocked responses and the same collaborator
\* frame, runs in the state the first call has left: it ends as the first did,
\* returns identical tables and texts and prints the same lines, whatever key
\* is configured, although it is handed the collaborator's frame as the first
\* call has left it; it issues the same requests to the same urls with the same
\* parameters, which differ from those of the first call in nothing but the
\* value of the key when another key was configured.
C11_Determinism ==
    SecondOfTwo =>
        /\ outcome = prev.outcome
        /\ ret = prev.ret
        /\ sink = prev.sink
        /\ Len(trace) = Len(prev.trace)
        /\ \A i \in DOMAIN trace : WithoutKey(trace[i]) = WithoutKey(prev.trace[i])
        /\ KeysRead(trace) = KeysRead(prev.trace) => trace = prev.trace

\* a second get_tokenomics call on a 200 and a 401, with a collaborator frame
\* that holds a null, made under another key than the first
C11_Witness ==
    /\ SecondOfTwo
    /\ fn = "get_tokenomics"
    /\ outcome = "returned"
    /\ responses[1].status_code = 200
    /\ responses[2].status_code = 401
    /\ \E i \in DOMAIN cg_df.rows : cg_df.rows[i]["Value"] = None
    /\ sink # << >>
    /\ Len(ret.tables[1].rows) = 7
    /\ ret = prev.ret
    /\ KeysRead(trace) # KeysRead(prev.trace)

\* a finished get_tokenomics call
TokenomicsCall == CallDone /\ fn = "get_tokenomics"

\* the five rows get_tokenomics makes from the profile, in order
TokenomicsMetrics ==
    << "Emission Type", "Consensus Mechanism", "Consensus Details", "Mining Algorithm",
       "Block Reward" >>

\* the events of a get_tokenomics call on a 200, in the order of the code: the
\* profile request, the collaborator call with the coingecko identifier, the
\* circulating-supply request (metric sply.circ, interval 1d, empty start, end)
IsTokenomicsEvent(e, i) ==
    CASE i = 1 -> /\ e.op = "GET"
                  /\ e.url = base_url2 \o "assets/" \o args.symbol \o "/profile"
      [] i = 2 -> e = [op |-> "get_coin_tokenomics", arg |-> args.coingecko_symbol]
      [] i = 3 -> /\ e.op = "GET"
                  /\ e.url = base_url \o "assets/" \o args.symbol
                                \o "/metrics/sply.circ/time-series"
                  /\ e.params = {<<"start", "">>, <<"end", "">>, <<"interval", "1d">>}
      [] OTHER -> FALSE

\* C12: in get_tokenomics the profile request comes first, and while it waits
\* for the profile response nothing else has been called.  When it returns 200
\* the collaborator get_coin_tokenomics is called next, with the coingecko
\* identifier, and the circulating-supply timeseries request (metric sply.circ,
\* interval 1d, empty start and end) is issued last, after the collaborator has
\* returned, and nothing else; the tokenomics table is populated (its five
\* profile rows, then the collaborator's rows) whatever the timeseries request
\* returns, and the circulating-supply table is empty when that request does
\* not return 200.  When the profile request returns any other status, neither
\* the collaborator call nor the timeseries request is made and both returned
\* tables are empty.
C12_TokenomicsOrder ==
    /\ (Pending /\ fn = "get_tokenomics") =>
        /\ Len(trace) \in 1..3
        /\ \A i \in DOMAIN trace : IsTokenomicsEvent(trace[i], i)
        /\ Len(responses) = (IF Len(trace) = 1 THEN 0 ELSE 1)
        /\ Len(trace) > 1 => responses[1].status_code = 200
    /\ TokenomicsCall =>
        /\ outcome = "returned"
        /\ Len(ret.tables) = 2
        /\ IF responses[1].status_code = 200
           THEN /\ Len(trace) = 3
                /\ \A i \in DOMAIN trace : IsTokenomicsEvent(trace[i], i)
                /\ Len(ret.tables[1].rows) = 5 + Len(cg_df.rows)
                /\ \A i \in 1..5 : ret.tables[1].rows[i]["Metric"] = Str(TokenomicsMetrics[i])
                /\ ~empty(ret.tables[1])
                /\ responses[2].status_code # 200 => empty(ret.tables[2])
           ELSE /\ Len(trace) = 1
                /\ IsTokenomicsEvent(trace[1], 1)
                /\ empty(ret.tables[1])
                /\ empty(ret.tables[2])

C12_Witness ==
    /\ TokenomicsCall
    /\ responses[1].status_code = 200
    /\ responses[2].status_code = 500
    /\ trace[2].op = "get_coin_tokenomics"
    /\ trace[3].op = "GET"
    /\ Len(ret.tables[1].rows) = 7
    /\ empty(ret.tables[2])

====
